---- MODULE Spec2Model ----
(***************************************************************************)
(* SwarmOS coordination engine.                                            *)
(*                                                                         *)
(* Dispatch Controller (swarmos-backend/bee1/api/main.py) on top of the    *)
(* Redis queue library (swarmos-backend/rails/queue/redis.py).  Every      *)
(* handler is an asyncio coroutine: it runs without interruption between   *)
(* two awaits, and every await of a Redis command is a point where other   *)
(* handlers run.  One action of the model is one Redis command together    *)
(* with the handler code that follows it up to the next await.             *)
(*                                                                         *)
(* Money is counted in cents (Decimal("0.10") is 10).  Opaque payload      *)
(* fields that no branch of the code reads (job_type, dicom_ref, poe_hash, *)
(* execution_ms, gpu_model, ...) and the ISO timestamps of the job record  *)
(* are left out.                                                           *)
(***************************************************************************)
EXTENDS Integers, Sequences, FiniteSets, TLC

(***************************************************************************)
(* Bounds of the model.                                                    *)
(***************************************************************************)
MaxJobs == 1        \* accepted submits, with every handler running
MaxIntake == 3      \* accepted submits, with the intake handlers alone
MaxTopups == 1      \* topup requests
MaxInFlight == 2    \* handlers suspended at an await at the same time
MaxTicks == 1       \* clock advances
MaxLedgerOps == 3   \* ledger requests that change the store
MaxLeaves == 5      \* items of a Merkle tree
MaxQueued == 3      \* jobs a caller of the queue library enqueues
MaxRevenue == 200   \* largest epoch revenue of the swept range, in cents
MaxInserted == 4    \* items of a list a MerkleTree is built from
MaxRequests == 3    \* submit requests one portal client sends
MaxFreeScans == 1   \* free scans the client has left when they begin
MaxAddFunds == 1    \* add-funds requests of the client

(***************************************************************************)
(* Program constants.                                                      *)
(***************************************************************************)
JOB_FEE_USD == 10
REPLAY_WINDOW == 300
\* swarmbank Config, in hundredths.
PROTOCOL_FEE_PCT == 2
OPERATOR_FEE_PCT == 5
WORK_POOL_PCT == 70
READINESS_POOL_PCT == 23
WORKER_HEARTBEAT_TTL == 60
\* ClientSwarm Settings.price_per_scan, in cents.
price_per_scan == 10
JobCounterInit == 850
CurrentEpochNum == 2
DemoBalance == 2450
DemoTotalSpent == 84730
DemoTotalJobs == 8473

\* The demo data of the ledger, in cents.
LedgerDemoBalance == 24500
LedgerAcmeBalance == 124000
LedgerBee01Balance == 84730
LedgerBee02Balance == 62315
Epoch1Jobs == 105
Epoch1Revenue == 1050
Epoch2Jobs == 248
Epoch2Revenue == 2480
Epoch3Jobs == 67
Epoch3Revenue == 670

\* The timeouts the controller is specified to enforce; the source sets
\* neither.
CLAIM_TIMEOUT == 60
HEARTBEAT_SWEEP_INTERVAL == 10

\* The clock moves in steps of a claim timeout and one sweep after it, which
\* is also past the heartbeat TTL.
TickStep == CLAIM_TIMEOUT + HEARTBEAT_SWEEP_INTERVAL + 1

DemoClient == "xyzclinic.clientswarm.eth"
Clients == {DemoClient, "acme.clientswarm.eth"}
Workers == {"bee-01.swarmbee.eth", "bee-02.swarmbee.eth"}
Nonces == {"n1", "n2"}
ResultRefs == {"ipfs://R1", "ipfs://R2"}
TopupAmounts == {JOB_FEE_USD}
\* |now - timestamp| of a submit request, in seconds.
Skews == {REPLAY_WINDOW - 1, REPLAY_WINDOW, REPLAY_WINDOW + 1}
Mallory == "0xMallory"

None == "None"
NoJobId == <<>>

\* The address an ENS name is bound to.
BoundAddress(ens) == IF ens = DemoClient THEN "0xA11CE" ELSE "0xB0B"

VARIABLES
    clients,        \* state.clients: ens -> balance info
    jobs,           \* state.jobs: job_id -> job record
    job_counter,    \* state.job_counter
    pending,        \* Redis stream swarm:jobs:pending, oldest entry first
    stream_seq,     \* last message id the stream has handed out
    processing,     \* Redis hash swarm:jobs:processing: job_id -> claim data
    workers,        \* Redis hash swarm:workers: ens -> worker data
    now,            \* time.time()
    submitReq,      \* per client: the submit handler suspended at an await
    claimReq,       \* per worker: the claim handler suspended at an await
    completeReq,    \* per worker: the complete handler suspended at an await
    topups,         \* number of topup requests so far
    delivered,      \* history: (job_id, worker) pairs returned by claim
    charges,        \* history: job_id -> number of times the fee was charged
    nonce_log,      \* history: job_id -> nonce of the submit that created it
    \* Settlement Ledger (swarmledger/api/main.py), LedgerStore:
    accounts,       \* store.accounts: ens -> account
    transactions,   \* store.transactions, append-only
    deposits,       \* store.deposits
    withdrawals,    \* store.withdrawals
    epochs,         \* store.epochs: epoch id -> epoch
    tx_counter,     \* store.tx_counter
    ledger_ops,     \* number of ledger requests that changed the store
    reserved_for,   \* the (account, job_id) pairs of the accepted reserve requests
    \* Receipts (rails/crypto/signing.py): a tree, a receipt from it, a check.
    tree_items,     \* the keys of the items the MerkleTree was built from
    receipt,        \* the receipt a verifier holds
    receipt_pc,     \* "empty", "built", "issued", "verified"
    altered,        \* what was altered in the receipt since it was issued
    verdict,        \* what verify_merkle_proof answered
    answer,         \* what a receipt verification endpoint answered
    \* Treasury (swarmbank/api/main.py):
    treasury_report, \* the last answer of GET /v1/treasury/report
    \* Worker agents (bee2/worker/main.py), one BeeWorker per worker:
    worker_job_id,  \* self.current_job_id
    jobs_failed,    \* self.jobs_failed
    taken,          \* the claim responses job_loop has passed to execute_job
    \* A MerkleTree built from a list in insertion order:
    inserted,       \* the items argument of MerkleTree.__init__, as keys
    merkle_tree,    \* the object: items, leaves, levels
    \* ClientSwarm portal (backend/api/jobs.py, settings.py), one client:
    client_doc,     \* the client's document of the clients collection
    job_docs,       \* the number of documents of the jobs collection
    portalReq,      \* each submit request: its position and its client dict
    funded          \* the sum of the amounts add_funds credited, in cents

controllerVars ==
    <<clients, jobs, job_counter, pending, stream_seq, processing, workers,
      now, submitReq, claimReq, completeReq, topups, delivered, charges,
      nonce_log>>

ledgerVars ==
    <<accounts, transactions, deposits, withdrawals, epochs, tx_counter,
      ledger_ops, reserved_for>>

receiptVars == <<tree_items, receipt, receipt_pc, altered, verdict, answer>>

bankVars == <<treasury_report>>

agentVars == <<worker_job_id, jobs_failed, taken>>

orderVars == <<inserted, merkle_tree>>

portalVars == <<client_doc, job_docs, portalReq, funded>>

\* What a handler of the controller leaves alone: the other services.
outsideController ==
    <<ledgerVars, receiptVars, bankVars, agentVars, orderVars,
      portalVars>>

\* What a handler of the ledger leaves alone.
outsideLedger ==
    <<controllerVars, receiptVars, bankVars, agentVars, orderVars,
      portalVars>>

\* What the receipt library leaves alone.
outsideReceipts ==
    <<controllerVars, ledgerVars, bankVars, agentVars, orderVars,
      portalVars>>

\* What the treasury leaves alone.
outsideBank ==
    <<controllerVars, ledgerVars, receiptVars, agentVars, orderVars,
      portalVars>>

\* What a worker agent leaves alone until it sends a request.
outsideAgent ==
    <<controllerVars, ledgerVars, receiptVars, bankVars, orderVars,
      portalVars>>

\* What the construction of a tree leaves alone.
outsideOrder ==
    <<controllerVars, ledgerVars, receiptVars, bankVars, agentVars,
      portalVars>>

\* What the ClientSwarm portal leaves alone.
outsidePortal ==
    <<controllerVars, ledgerVars, receiptVars, bankVars, agentVars,
      orderVars>>

vars ==
    <<controllerVars, ledgerVars, receiptVars, bankVars, agentVars,
      orderVars, portalVars>>

(***************************************************************************)
(* Helpers.                                                                *)
(***************************************************************************)
Abs(x) == IF x < 0 THEN -x ELSE x

\* A job id made of the epoch number alone.
JobIdOfEpoch(epoch_num, sequence) == <<"job", epoch_num>>

\* generate_job_id: f"job-{epoch_num}-{sequence:04d}"
JobIdOf(epoch_num, sequence) == <<"job", epoch_num, sequence>>

\* The job ids a complete request may name: those submit can hand out, and
\* one it never does.
JobIds == {JobIdOf(CurrentEpochNum, n) :
             n \in (JobCounterInit + 1)..(JobCounterInit + MaxJobs + 1)}

\* create_job_message: the canonical text a client signs.
CreateJobMessage(client_ens, timestamp, nonce) ==
    <<"SwarmOS Job Request", client_ens, timestamp, nonce>>

\* sign_message: a signature is modelled by what verification can read from
\* it: the message that was signed and the address of the key.
SignMessage(message, address) == [message |-> message, signer |-> address]

\* recover_signer
RecoverSigner(message, signature) ==
    IF signature.message = message THEN signature.signer ELSE None

\* verify_signature
VerifySignature(message, signature, expected_address) ==
    RecoverSigner(message, signature) = expected_address

\* verify_job_request
VerifyJobRequest(request, expected_address) ==
    VerifySignature(
        CreateJobMessage(request.client_ens, request.timestamp, request.nonce),
        request.signature, expected_address)

IdleReq == [pc |-> "idle"]

(***************************************************************************)
(* Digests.  SHA-256 is modelled as collision free: a digest is the tuple  *)
(* of what was hashed, so two digests are equal exactly when their inputs  *)
(* are.  A 64-digit hex string written in the source is an opaque digest.  *)
(***************************************************************************)
Digest(hex) == <<hex>>
NoDigest == <<>>

\* sha256_hex(canonical_json(item))
LeafHashOf(item) == <<"sha256", item>>

\* hash_pair
HashPair(left, right) == <<"sha256", left, right>>

InFlight ==
    Cardinality({c \in Clients : submitReq[c].pc # "idle"})
  + Cardinality({w \in Workers : claimReq[w].pc # "idle"})
  + Cardinality({w \in Workers : completeReq[w].pc # "idle"})

(***************************************************************************)
(* Initial state: AppState.__init__ and an empty Redis.                    *)
(***************************************************************************)
ControllerInit ==
    /\ clients = (DemoClient :> [balance_usd |-> DemoBalance,
                                 reserved_usd |-> 0,
                                 total_spent_usd |-> DemoTotalSpent,
                                 total_jobs |-> DemoTotalJobs])
    /\ jobs = <<>>
    /\ job_counter = JobCounterInit
    /\ pending = <<>>
    /\ stream_seq = 0
    /\ processing = <<>>
    /\ workers = <<>>
    /\ now = 0
    /\ submitReq = [c \in Clients |-> IdleReq]
    /\ claimReq = [w \in Workers |-> IdleReq]
    /\ completeReq = [w \in Workers |-> IdleReq]
    /\ topups = 0
    /\ delivered = {}
    /\ charges = <<>>
    /\ nonce_log = <<>>

(***************************************************************************)
(* The Settlement Ledger: LedgerStore.__init__.  Money is in cents.  The    *)
(* created_at and sealed_at stamps of the records are left out: no handler  *)
(* of the ledger reads them.                                                *)
(***************************************************************************)
InitAccount(account_type, balance) ==
    [account_type |-> account_type,
     balance_usd |-> balance,
     reserved_usd |-> 0,
     pending_usd |-> 0,
     total_in_usd |-> balance,
     total_out_usd |-> 0]

DemoEpoch(status, jobs_count, jobs_merkle_root, total_revenue_usd) ==
    [status |-> status,
     jobs_count |-> jobs_count,
     jobs_merkle_root |-> jobs_merkle_root,
     total_revenue_usd |-> total_revenue_usd,
     signature |-> None]

LedgerInit ==
    /\ accounts =
          ("swarmbank.eth" :> InitAccount("treasury", 0))
       @@ ("bee23.eth" :> InitAccount("treasury", 0))
       @@ ("swarmos.eth" :> InitAccount("treasury", 0))
       @@ (DemoClient :> InitAccount("client", LedgerDemoBalance))
       @@ ("acme.clientswarm.eth" :> InitAccount("client", LedgerAcmeBalance))
       @@ ("bee-01.swarmbee.eth" :> InitAccount("worker", LedgerBee01Balance))
       @@ ("bee-02.swarmbee.eth" :> InitAccount("worker", LedgerBee02Balance))
    /\ transactions = <<>>
    /\ deposits = <<>>
    /\ withdrawals = <<>>
    /\ epochs =
          ("epoch-001" :> DemoEpoch("finalized", Epoch1Jobs, Digest("7ec20e03"),
                                    Epoch1Revenue))
       @@ ("epoch-002" :> DemoEpoch("finalized", Epoch2Jobs, Digest("a3f891c2"),
                                    Epoch2Revenue))
       @@ ("epoch-003" :> DemoEpoch("active", Epoch3Jobs, NoDigest,
                                    Epoch3Revenue))
    /\ tx_counter = 0
    /\ ledger_ops = 0
    /\ reserved_for = {}

\* No tree is built and no receipt issued.
BlankReceipt ==
    [job_id |-> 0, epoch_id |-> None, leaf_hash |-> NoDigest,
     jobs_merkle_root |-> NoDigest, merkle_proof |-> <<>>]

ReceiptInit ==
    /\ tree_items = {}
    /\ receipt = BlankReceipt
    /\ receipt_pc = "empty"
    /\ altered = [what |-> "none", step |-> 0]
    /\ verdict = "unchecked"
    /\ answer = [service |-> "none", valid |-> FALSE]

\* No treasury report was asked for.
BankInit ==
    treasury_report = [period |-> "none",
                       total_revenue_usd |-> 0,
                       work_pool_usd |-> 0,
                       readiness_pool_usd |-> 0,
                       protocol_fee_usd |-> 0,
                       operator_fee_usd |-> 0,
                       total_distributed_usd |-> 0]

\* BeeWorker.__init__
AgentInit ==
    /\ worker_job_id = [w \in Workers |-> NoJobId]
    /\ jobs_failed = [w \in Workers |-> 0]
    /\ taken = {}

\* MerkleTree([]): no items, no leaves, one empty level.
OrderInit ==
    /\ inserted = <<>>
    /\ merkle_tree = [items |-> <<>>, leaves |-> <<>>, levels |-> <<(<<>>)>>]

\* A client of the portal who has MaxFreeScans of the free trial left and
\* no balance, and has sent no request yet.
PortalInit ==
    /\ client_doc = [balance |-> 0, free_scans_remaining |-> MaxFreeScans,
                     total_jobs |-> 0]
    /\ job_docs = 0
    /\ portalReq = [r \in 1..MaxRequests |->
                       [pc |-> "idle",
                        client |-> [balance |-> 0, free_scans_remaining |-> 0,
                                    total_jobs |-> 0]]]
    /\ funded = 0

Init ==
    /\ ControllerInit /\ LedgerInit /\ ReceiptInit /\ BankInit /\ AgentInit
    /\ OrderInit /\ PortalInit

(***************************************************************************)
(* SwarmQueue (rails/queue/redis.py).                                      *)
(***************************************************************************)
\* xadd: append an entry under a fresh message id.
Xadd(stream, message_id, job) ==
    Append(stream, [message_id |-> message_id, job_id |-> job.job_id,
                    client_ens |-> job.client_ens, fee_usd |-> job.fee_usd,
                    priority |-> job.priority])

\* xread({stream: "0"}, count=1): the entries the call returns.
Xread(stream) == IF stream = <<>> THEN <<>> ELSE <<Head(stream)>>

\* xdel: drop the entry with that message id, if it is still there.
Xdel(stream, message_id) ==
    SelectSeq(stream, LAMBDA e : e.message_id # message_id)

\* hset / hdel on a hash.
Hset(hash, key, value) ==
    [k \in DOMAIN hash \cup {key} |-> IF k = key THEN value ELSE hash[k]]
Hdel(hash, key) == [k \in DOMAIN hash \ {key} |-> hash[k]]

\* SwarmQueue.set_worker_status: hget, then hset of the record with status,
\* current_job_id and last_heartbeat overwritten.  The hash never loses a key
\* and the three fields written do not depend on the value read, so the read
\* decides only whether the write happens.
SetWorkerStatus(hash, worker_ens, status, current_job_id, t) ==
    IF worker_ens \notin DOMAIN hash
    THEN hash
    ELSE Hset(hash, worker_ens,
              [status |-> status, current_job_id |-> current_job_id,
               last_heartbeat |-> t])

(***************************************************************************)
(* POST /api/v1/clients/{ens}/topup                                        *)
(***************************************************************************)
NewClient == [balance_usd |-> 0, reserved_usd |-> 0,
              total_spent_usd |-> 0, total_jobs |-> 0]

TopupClient(ens, amount) ==
    LET known == IF ens \in DOMAIN clients THEN clients
                 ELSE Hset(clients, ens, NewClient)
    IN  /\ topups < MaxTopups
        /\ topups' = topups + 1
        /\ clients' = [known EXCEPT ![ens].balance_usd = @ + amount]
        /\ UNCHANGED <<jobs, job_counter, pending, stream_seq, processing,
                       workers, now, submitReq, claimReq, completeReq,
                       delivered, charges, nonce_log>>
        /\ UNCHANGED outsideController

(***************************************************************************)
(* POST /api/v1/jobs (submit_job)                                          *)
(***************************************************************************)
SubmitRequests(c) ==
    {[client_ens |-> c, timestamp |-> now - skew, nonce |-> n,
      signature |-> SignMessage(CreateJobMessage(c, now - skew, n), a)] :
        skew \in Skews, n \in Nonces, a \in {BoundAddress(c), Mallory}}

\* The checks of submit_job with the balance, not the available funds,
\* compared with the fee.
SubmitRejectionIgnoresReserved(request) ==
    IF request.client_ens \notin DOMAIN clients THEN 404
    ELSE IF clients[request.client_ens].balance_usd < JOB_FEE_USD THEN 402
    ELSE IF Abs(now - request.timestamp) > REPLAY_WINDOW THEN 400
    ELSE 0

\* Steps 1 and 3 of the handler: the checks that reject the request.
SubmitRejection(request) ==
    IF request.client_ens \notin DOMAIN clients THEN 404
    ELSE IF clients[request.client_ens].balance_usd
            - clients[request.client_ens].reserved_usd < JOB_FEE_USD THEN 402
    ELSE IF Abs(now - request.timestamp) > REPLAY_WINDOW THEN 400
    ELSE 0

NewJobRecord(job_id, client_ens) ==
    [id |-> job_id, epoch_id |-> CurrentEpochNum, client_ens |-> client_ens,
     worker_ens |-> None, status |-> "queued", result_ref |-> None,
     fee_usd |-> JOB_FEE_USD]

\* The handler up to its only await (enqueue_job): rejected, or the job id is
\* taken, the fee reserved and the job record written.
SubmitJob(request) ==
    LET c == request.client_ens
        code == SubmitRejection(request)
        job_id == JobIdOf(CurrentEpochNum, job_counter + 1)
    IN  /\ submitReq[c].pc = "idle"
        /\ IF code # 0
           THEN /\ UNCHANGED <<clients, jobs, job_counter, submitReq,
                               nonce_log>>
           ELSE /\ InFlight < MaxInFlight
                /\ job_counter' = job_counter + 1
                /\ clients' = [clients EXCEPT ![c].reserved_usd =
                                                  @ + JOB_FEE_USD]
                /\ jobs' = Hset(jobs, job_id, NewJobRecord(job_id, c))
                /\ nonce_log' = Hset(nonce_log, job_id, request.nonce)
                /\ submitReq' = [submitReq EXCEPT ![c] =
                       [pc |-> "xadd", job_id |-> job_id,
                        request |-> request]]
        /\ UNCHANGED <<pending, stream_seq, processing, workers, now, claimReq,
                       completeReq, topups, delivered, charges>>
        /\ UNCHANGED outsideController

\* SwarmQueue.enqueue_job, and the response.
SubmitEnqueue(c) ==
    LET r == submitReq[c]
    IN  /\ r.pc = "xadd"
        /\ stream_seq' = stream_seq + 1
        /\ pending' = Xadd(pending, stream_seq + 1,
                           [job_id |-> r.job_id, client_ens |-> c,
                            fee_usd |-> JOB_FEE_USD, priority |-> 0])
        /\ submitReq' = [submitReq EXCEPT ![c] = IdleReq]
        /\ UNCHANGED <<clients, jobs, job_counter, processing, workers, now,
                       claimReq, completeReq, topups, delivered, charges,
                       nonce_log>>
        /\ UNCHANGED outsideController

(***************************************************************************)
(* POST /api/v1/workers/register, POST /api/v1/workers/heartbeat           *)
(***************************************************************************)
RegisterWorker(w) ==
    /\ workers' = Hset(workers, w, [status |-> "online",
                                    current_job_id |-> NoJobId,
                                    last_heartbeat |-> now])
    /\ UNCHANGED <<clients, jobs, job_counter, pending, stream_seq, processing,
                   now, submitReq, claimReq, completeReq, topups, delivered,
                   charges, nonce_log>>
    /\ UNCHANGED outsideController

\* What BeeWorker.heartbeat_loop sends: "busy" with the job the worker holds,
\* "online" without one.  A heartbeat may reach the controller late, so it may
\* name any job that claim ever returned to the worker.
HeartbeatRequests(w) ==
    {[status |-> "online", current_job_id |-> NoJobId]}
    \cup {[status |-> "busy", current_job_id |-> d[1]] :
             d \in {x \in delivered : x[2] = w}}

WorkerHeartbeat(w, request) ==
    /\ workers' = SetWorkerStatus(workers, w, request.status,
                                  request.current_job_id, now)
    /\ UNCHANGED <<clients, jobs, job_counter, pending, stream_seq, processing,
                   now, submitReq, claimReq, completeReq, topups, delivered,
                   charges, nonce_log>>
    /\ UNCHANGED outsideController

(***************************************************************************)
(* POST /api/v1/jobs/claim: SwarmQueue.claim_job, then the job record and  *)
(* the worker status.                                                      *)
(***************************************************************************)
\* xread.  An empty stream ends the handler with claimed = False.
ClaimRead(w) ==
    LET entries == Xread(pending)
    IN  /\ claimReq[w].pc = "idle"
        /\ IF entries = <<>>
           THEN /\ UNCHANGED claimReq
           ELSE /\ InFlight < MaxInFlight
                /\ claimReq' = [claimReq EXCEPT ![w] =
                       [pc |-> "hset", entry |-> entries[1]]]
        /\ UNCHANGED <<clients, jobs, job_counter, pending, stream_seq,
                       processing, workers, now, submitReq, completeReq,
                       topups, delivered, charges, nonce_log>>
        /\ UNCHANGED outsideController

\* hset of the processing hash.
ClaimHset(w) ==
    LET e == claimReq[w].entry
    IN  /\ claimReq[w].pc = "hset"
        /\ processing' = Hset(processing, e.job_id,
               [worker_ens |-> w, claimed_at |-> now,
                message_id |-> e.message_id])
        /\ claimReq' = [claimReq EXCEPT ![w].pc = "xdel"]
        /\ UNCHANGED <<clients, jobs, job_counter, pending, stream_seq,
                       workers, now, submitReq, completeReq, topups,
                       delivered, charges, nonce_log>>
        /\ UNCHANGED outsideController

\* The job record after SwarmQueue.claim_job returned a job.
ClaimedRecord(record, w) ==
    [record EXCEPT !.status = "processing", !.worker_ens = w]

\* xdel of the pending stream; claim_job returns and the handler updates the
\* job record before it awaits set_worker_status.
ClaimXdel(w) ==
    LET e == claimReq[w].entry
    IN  /\ claimReq[w].pc = "xdel"
        /\ pending' = Xdel(pending, e.message_id)
        /\ jobs' = IF e.job_id \in DOMAIN jobs
                   THEN [jobs EXCEPT ![e.job_id] = ClaimedRecord(@, w)]
                   ELSE jobs
        /\ claimReq' = [claimReq EXCEPT ![w].pc = "status"]
        /\ UNCHANGED <<clients, job_counter, stream_seq, processing, workers,
                       now, submitReq, completeReq, topups, delivered,
                       charges, nonce_log>>
        /\ UNCHANGED outsideController

\* set_worker_status(worker_ens, "busy", job_id), and the response.
ClaimStatus(w) ==
    LET e == claimReq[w].entry
    IN  /\ claimReq[w].pc = "status"
        /\ workers' = SetWorkerStatus(workers, w, "busy", e.job_id, now)
        /\ claimReq' = [claimReq EXCEPT ![w] = IdleReq]
        /\ delivered' = delivered \cup {<<e.job_id, w>>}
        /\ UNCHANGED <<clients, jobs, job_counter, pending, stream_seq,
                       processing, now, submitReq, completeReq, topups,
                       charges, nonce_log>>
        /\ UNCHANGED outsideController

(***************************************************************************)
(* POST /api/v1/jobs/{job_id}/complete                                     *)
(***************************************************************************)
CompleteRequests ==
    {[worker_ens |-> w, result_ref |-> r] : w \in Workers, r \in ResultRefs}

\* The checks that reject the request.
CompleteRejection(job_id) ==
    IF job_id \notin DOMAIN jobs THEN 404
    ELSE IF jobs[job_id].status # "processing" THEN 400
    ELSE 0

CompletedRecord(record, request) ==
    [record EXCEPT !.status = "completed", !.result_ref = request.result_ref]

\* "Finalize payment"
ChargedClient(client, fee) ==
    [client EXCEPT !.reserved_usd = @ - fee, !.balance_usd = @ - fee,
                   !.total_spent_usd = @ + fee, !.total_jobs = @ + 1]

\* The handler up to its first await: rejected, or the job record is made
\* completed and the client charged.
CompleteJob(job_id, request) ==
    LET w == request.worker_ens
        code == CompleteRejection(job_id)
    IN  /\ completeReq[w].pc = "idle"
        /\ IF code # 0
           THEN /\ UNCHANGED <<clients, jobs, completeReq, charges>>
           ELSE /\ InFlight < MaxInFlight
                /\ jobs' = [jobs EXCEPT ![job_id] =
                                CompletedRecord(@, request)]
                /\ clients' =
                       IF jobs[job_id].client_ens \in DOMAIN clients
                       THEN [clients EXCEPT ![jobs[job_id].client_ens] =
                                ChargedClient(@, jobs[job_id].fee_usd)]
                       ELSE clients
                /\ charges' = Hset(charges, job_id,
                       IF job_id \in DOMAIN charges
                       THEN charges[job_id] + 1 ELSE 1)
                /\ completeReq' = [completeReq EXCEPT ![w] =
                       [pc |-> "status", job_id |-> job_id]]
        /\ UNCHANGED <<job_counter, pending, stream_seq, processing, workers,
                       now, submitReq, claimReq, topups, delivered, nonce_log>>
        /\ UNCHANGED outsideController

\* set_worker_status(request.worker_ens, "online", None)
CompleteStatus(w) ==
    /\ completeReq[w].pc = "status"
    /\ workers' = SetWorkerStatus(workers, w, "online", NoJobId, now)
    /\ completeReq' = [completeReq EXCEPT ![w].pc = "hdel"]
    /\ UNCHANGED <<clients, jobs, job_counter, pending, stream_seq, processing,
                   now, submitReq, claimReq, topups, delivered, charges,
                   nonce_log>>
    /\ UNCHANGED outsideController

\* SwarmQueue.complete_job (hdel of the processing hash), and the response.
CompleteHdel(w) ==
    LET r == completeReq[w]
    IN  /\ r.pc = "hdel"
        /\ processing' = Hdel(processing, r.job_id)
        /\ completeReq' = [completeReq EXCEPT ![w] = IdleReq]
        /\ UNCHANGED <<clients, jobs, job_counter, pending, stream_seq,
                       workers, now, submitReq, claimReq, topups, delivered,
                       charges, nonce_log>>
        /\ UNCHANGED outsideController

(***************************************************************************)
(* The clock (time.time()).  A step of the clock is longer than any handler *)
(* stays in flight (the longest wait of a handler is the one-second block  *)
(* of xread), so the clock steps between requests.                         *)
(***************************************************************************)
Tick ==
    /\ now + TickStep <= MaxTicks * TickStep
    /\ InFlight = 0
    /\ now' = now + TickStep
    /\ UNCHANGED <<clients, jobs, job_counter, pending, stream_seq, processing,
                   workers, submitReq, claimReq, completeReq, topups,
                   delivered, charges, nonce_log>>
    /\ UNCHANGED outsideController

(***************************************************************************)
(* The controller.                                                         *)
(***************************************************************************)
Next ==
    \/ \E c \in Clients, a \in TopupAmounts : TopupClient(c, a)
    \/ /\ job_counter < JobCounterInit + MaxJobs
       /\ \E c \in Clients : \E request \in SubmitRequests(c) :
              SubmitJob(request)
    \/ \E c \in Clients : SubmitEnqueue(c)
    \/ \E w \in Workers : RegisterWorker(w)
    \/ \E w \in Workers : \E request \in HeartbeatRequests(w) :
           WorkerHeartbeat(w, request)
    \/ \E w \in Workers : ClaimRead(w)
    \/ \E w \in Workers : ClaimHset(w)
    \/ \E w \in Workers : ClaimXdel(w)
    \/ \E w \in Workers : ClaimStatus(w)
    \/ \E j \in JobIds : \E request \in CompleteRequests :
           CompleteJob(j, request)
    \/ \E w \in Workers : CompleteStatus(w)
    \/ \E w \in Workers : CompleteHdel(w)
    \/ Tick

Spec == Init /\ [][Next]_vars

(***************************************************************************)
(* The intake side alone: topup and submit, for more jobs.                 *)
(***************************************************************************)
IntakeNext ==
    \/ \E c \in Clients, a \in TopupAmounts : TopupClient(c, a)
    \/ /\ job_counter < JobCounterInit + MaxIntake
       /\ \E c \in Clients : \E request \in SubmitRequests(c) :
              SubmitJob(request)
    \/ \E c \in Clients : SubmitEnqueue(c)

IntakeSpec == Init /\ [][IntakeNext]_vars

(***************************************************************************)
(* What the controller is bound to do: a handler suspended at an await is  *)
(* resumed, and the clock advances.  Nothing obliges a client or a worker  *)
(* to send a request.                                                      *)
(***************************************************************************)
HandlerResumes ==
    \/ \E c \in Clients : SubmitEnqueue(c)
    \/ \E w \in Workers : ClaimHset(w)
    \/ \E w \in Workers : ClaimXdel(w)
    \/ \E w \in Workers : ClaimStatus(w)
    \/ \E w \in Workers : CompleteStatus(w)
    \/ \E w \in Workers : CompleteHdel(w)

FairSpec == Init /\ [][Next]_vars /\ WF_vars(HandlerResumes) /\ WF_vars(Tick)

\* The worker's heartbeat is older than the TTL.
StaleWorker(w) ==
    /\ w \in DOMAIN workers
    /\ now - workers[w].last_heartbeat > WORKER_HEARTBEAT_TTL

\* SwarmQueue.cleanup_stale_workers, the whole loop.  No task calls it:
\* lifespan connects to Redis and starts nothing, so it is no step of Next.
CleanupStaleWorkers ==
    /\ workers' = [w \in DOMAIN workers |->
                      IF StaleWorker(w) /\ workers[w].status # "offline"
                      THEN [status |-> "offline", current_job_id |-> NoJobId,
                            last_heartbeat |-> now]
                      ELSE workers[w]]
    /\ UNCHANGED <<clients, jobs, job_counter, pending, stream_seq, processing,
                   now, submitReq, claimReq, completeReq, topups, delivered,
                   charges, nonce_log>>
    /\ UNCHANGED outsideController

\* The controller with a task that calls cleanup_stale_workers.
SweepNext ==
    \/ Next
    \/ CleanupStaleWorkers

SweepSpec == Init /\ [][SweepNext]_vars

(***************************************************************************)
(* The controller with a queue backend that may fail.  A Redis command     *)
(* that fails raises out of SwarmQueue and out of the handler (neither     *)
(* catches anything): the request ends with an error, and what the handler *)
(* wrote before the await stays written.                                   *)
(***************************************************************************)
\* enqueue_job raises in submit_job.
SubmitEnqueueFails(c) ==
    /\ submitReq[c].pc = "xadd"
    /\ submitReq' = [submitReq EXCEPT ![c] = IdleReq]
    /\ UNCHANGED <<clients, jobs, job_counter, pending, stream_seq, processing,
                   workers, now, claimReq, completeReq, topups, delivered,
                   charges, nonce_log>>
    /\ UNCHANGED outsideController

\* set_worker_status raises in complete_job.
CompleteStatusFails(w) ==
    /\ completeReq[w].pc = "status"
    /\ completeReq' = [completeReq EXCEPT ![w] = IdleReq]
    /\ UNCHANGED <<clients, jobs, job_counter, pending, stream_seq, processing,
                   workers, now, submitReq, claimReq, topups, delivered,
                   charges, nonce_log>>
    /\ UNCHANGED outsideController

\* queue.complete_job raises in complete_job.
CompleteHdelFails(w) ==
    /\ completeReq[w].pc = "hdel"
    /\ completeReq' = [completeReq EXCEPT ![w] = IdleReq]
    /\ UNCHANGED <<clients, jobs, job_counter, pending, stream_seq, processing,
                   workers, now, submitReq, claimReq, topups, delivered,
                   charges, nonce_log>>
    /\ UNCHANGED outsideController

FaultNext ==
    \/ Next
    \/ \E c \in Clients : SubmitEnqueueFails(c)
    \/ \E w \in Workers : CompleteStatusFails(w)
    \/ \E w \in Workers : CompleteHdelFails(w)

FaultSpec == Init /\ [][FaultNext]_vars

(***************************************************************************)
(* The worker agent (bee2/worker/main.py) next to the controller.  Its     *)
(* requests are among those Next lets arrive; what is added is the agent's *)
(* own state around execute_job.                                           *)
(***************************************************************************)
\* job_loop got a claimed job and execute_job starts on it.
ExecuteJob(w, job_id) ==
    /\ worker_job_id[w] = NoJobId
    /\ <<job_id, w>> \in delivered \ taken
    /\ worker_job_id' = [worker_job_id EXCEPT ![w] = job_id]
    /\ taken' = taken \cup {<<job_id, w>>}
    /\ UNCHANGED jobs_failed
    /\ UNCHANGED outsideAgent

\* The executor (or submit_completion) raises: the except branch counts the
\* failure and prints it, the finally branch clears self.current_job_id.  Nothing
\* is sent to the controller.
ExecuteFails(w) ==
    /\ worker_job_id[w] # NoJobId
    /\ jobs_failed' = [jobs_failed EXCEPT ![w] = @ + 1]
    /\ worker_job_id' = [worker_job_id EXCEPT ![w] = NoJobId]
    /\ UNCHANGED taken
    /\ UNCHANGED outsideAgent

\* submit_completion returned without raising: the controller completed the
\* job on this worker's request; the finally branch clears self.current_job_id.
ExecuteCompletes(w) ==
    /\ worker_job_id[w] # NoJobId
    /\ worker_job_id[w] \in DOMAIN jobs
    /\ jobs[worker_job_id[w]].status = "completed"
    /\ completeReq[w].pc = "idle"
    /\ worker_job_id' = [worker_job_id EXCEPT ![w] = NoJobId]
    /\ UNCHANGED <<jobs_failed, taken>>
    /\ UNCHANGED outsideAgent

WorkerNext ==
    \/ Next
    \/ \E w \in Workers, job_id \in JobIds : ExecuteJob(w, job_id)
    \/ \E w \in Workers : ExecuteFails(w)
    \/ \E w \in Workers : ExecuteCompletes(w)

WorkerSpec == Init /\ [][WorkerNext]_vars

(***************************************************************************)
(* The queue library alone: a caller of SwarmQueue enqueues QueuedJobs of  *)
(* any priority (QueuedJob.priority, "Higher = more urgent") and workers   *)
(* claim them.                                                             *)
(***************************************************************************)
Priorities == {0, 1}

\* SwarmQueue.enqueue_job
EnqueueJob(job) ==
    /\ stream_seq' = stream_seq + 1
    /\ pending' = Xadd(pending, stream_seq + 1, job)
    /\ UNCHANGED <<clients, jobs, job_counter, processing, workers, now,
                   submitReq, claimReq, completeReq, topups, delivered,
                   charges, nonce_log>>
    /\ UNCHANGED outsideController

QueueNext ==
    \/ /\ stream_seq < MaxQueued
       /\ \E priority \in Priorities :
              EnqueueJob([job_id |-> JobIdOf(CurrentEpochNum,
                                            JobCounterInit + stream_seq + 1),
                          client_ens |-> DemoClient,
                          fee_usd |-> JOB_FEE_USD,
                          priority |-> priority])
    \/ \E w \in Workers : ClaimRead(w)
    \/ \E w \in Workers : ClaimHset(w)
    \/ \E w \in Workers : ClaimXdel(w)
    \/ \E w \in Workers : ClaimStatus(w)

QueueSpec == Init /\ [][QueueNext]_vars

(***************************************************************************)
(* The Settlement Ledger.  Its handlers hold no await: each request is one  *)
(* step.  A rejected request (HTTPException) leaves the store as it was.    *)
(***************************************************************************)
LedgerEns == {DemoClient, "bee-01.swarmbee.eth", "bee-03.swarmbee.eth"}
LedgerAmounts == {JOB_FEE_USD, 2 * JOB_FEE_USD}
WithdrawAmounts == {JOB_FEE_USD, LedgerBee01Balance}
LedgerJobIds == {JobIdOf(CurrentEpochNum, JobCounterInit + 1),
                 JobIdOf(CurrentEpochNum, JobCounterInit + 2)}
EthTxHashes == {"0xd1", "0xd2"}
SealEpochIds == {"epoch-002", "epoch-003", "epoch-004"}
SettlementLists ==
    {<<>>,
     <<[worker_ens |-> "bee-01.swarmbee.eth",
        total_earned_usd |-> JOB_FEE_USD]>>,
     <<[worker_ens |-> "bee-03.swarmbee.eth",
        total_earned_usd |-> JOB_FEE_USD],
       [worker_ens |-> "bee-01.swarmbee.eth",
        total_earned_usd |-> 2 * JOB_FEE_USD]>>}

\* LedgerStore.get_or_create_account
GetOrCreateAccount(accts, ens, account_type) ==
    IF ens \in DOMAIN accts
    THEN accts
    ELSE accts @@ (ens :> InitAccount(account_type, 0))

\* LedgerStore.record_transaction: the log after the append.
RecordTransaction(txs, counter, account_ens, tx_type, amount, balance_after, reference_type, reference_id, eth_tx_hash) ==
    Append(txs, [id |-> <<"tx", counter + 1>>,
                 account_ens |-> account_ens,
                 tx_type |-> tx_type,
                 amount_usd |-> amount,
                 balance_after |-> balance_after,
                 reference_type |-> reference_type,
                 reference_id |-> reference_id,
                 eth_tx_hash |-> eth_tx_hash])

\* POST /v1/balances/{ens}/reserve: the status it rejects with, 0 if none.
ReserveRejection(ens, amount) ==
    IF ens \notin DOMAIN accounts THEN 404
    ELSE IF accounts[ens].balance_usd - accounts[ens].reserved_usd < amount
         THEN 402
         ELSE 0

ReserveFunds(ens, amount, job_id) ==
    IF ReserveRejection(ens, amount) # 0
    THEN UNCHANGED vars
    ELSE
        /\ accounts' = [accounts EXCEPT ![ens].reserved_usd = @ + amount]
        /\ ledger_ops' = ledger_ops + 1
        /\ reserved_for' = reserved_for \cup {<<ens, job_id>>}
        /\ UNCHANGED <<transactions, deposits, withdrawals, epochs,
                       tx_counter>>
        /\ UNCHANGED outsideLedger

\* POST /v1/balances/{ens}/charge
ChargeRejection(ens, amount) ==
    IF ens \notin DOMAIN accounts THEN 404
    ELSE IF accounts[ens].reserved_usd < amount THEN 400
         ELSE 0

ChargeFunds(ens, amount, job_id) ==
    IF ChargeRejection(ens, amount) # 0
    THEN UNCHANGED vars
    ELSE
        /\ accounts' = [accounts EXCEPT
                            ![ens].reserved_usd = @ - amount,
                            ![ens].balance_usd = @ - amount,
                            ![ens].total_out_usd = @ + amount]
        /\ transactions' =
               RecordTransaction(transactions, tx_counter, ens, "JOB_CHARGE",
                                 0 - amount, accounts'[ens].balance_usd,
                                 "job", job_id, None)
        /\ tx_counter' = tx_counter + 1
        /\ ledger_ops' = ledger_ops + 1
        /\ UNCHANGED reserved_for
        /\ UNCHANGED <<deposits, withdrawals, epochs>>
        /\ UNCHANGED outsideLedger

\* POST /v1/balances/{ens}/credit
CreditEarnings(ens, amount, job_id, is_pending) ==
    LET created == GetOrCreateAccount(accounts, ens, "worker") IN
    /\ IF is_pending
       THEN /\ accounts' = [created EXCEPT ![ens].pending_usd = @ + amount]
            /\ UNCHANGED <<transactions, tx_counter>>
       ELSE /\ accounts' = [created EXCEPT
                                ![ens].balance_usd = @ + amount,
                                ![ens].total_in_usd = @ + amount]
            /\ transactions' =
                   RecordTransaction(transactions, tx_counter, ens, "EARNING",
                                     amount, accounts'[ens].balance_usd,
                                     "job", job_id, None)
            /\ tx_counter' = tx_counter + 1
    /\ ledger_ops' = ledger_ops + 1
    /\ UNCHANGED reserved_for
    /\ UNCHANGED <<deposits, withdrawals, epochs>>
    /\ UNCHANGED outsideLedger

\* POST /v1/deposits
RecordDeposit(client_ens, amount, eth_tx_hash) ==
    LET created == GetOrCreateAccount(accounts, client_ens, "client") IN
    /\ accounts' = [created EXCEPT
                        ![client_ens].balance_usd = @ + amount,
                        ![client_ens].total_in_usd = @ + amount]
    /\ deposits' = Append(deposits, [id |-> <<"dep", Len(deposits) + 1>>,
                                     client_ens |-> client_ens,
                                     amount_usd |-> amount,
                                     eth_tx_hash |-> eth_tx_hash,
                                     status |-> "confirmed"])
    /\ transactions' =
           RecordTransaction(transactions, tx_counter, client_ens, "DEPOSIT",
                             amount, accounts'[client_ens].balance_usd,
                             "eth_tx", eth_tx_hash, eth_tx_hash)
    /\ tx_counter' = tx_counter + 1
    /\ ledger_ops' = ledger_ops + 1
    /\ UNCHANGED reserved_for
    /\ UNCHANGED <<withdrawals, epochs>>
    /\ UNCHANGED outsideLedger

\* POST /v1/withdrawals
WithdrawalRejection(worker_ens, amount) ==
    IF worker_ens \notin DOMAIN accounts THEN 404
    ELSE IF accounts[worker_ens].account_type # "worker" THEN 400
    ELSE IF accounts[worker_ens].balance_usd < amount THEN 402
    ELSE 0

RequestWithdrawal(worker_ens, amount) ==
    IF WithdrawalRejection(worker_ens, amount) # 0
    THEN UNCHANGED vars
    ELSE
        /\ withdrawals' =
               Append(withdrawals, [id |-> <<"wd", Len(withdrawals) + 1>>,
                                    worker_ens |-> worker_ens,
                                    amount_usd |-> amount,
                                    status |-> "pending"])
        /\ accounts' = [accounts EXCEPT
                            ![worker_ens].reserved_usd = @ + amount]
        /\ ledger_ops' = ledger_ops + 1
        /\ UNCHANGED reserved_for
        /\ UNCHANGED <<transactions, deposits, epochs, tx_counter>>
        /\ UNCHANGED outsideLedger

\* POST /v1/epochs/{epoch_id}/seal
SealRejectionIgnoresStatus(epoch_id) ==
    IF epoch_id \notin DOMAIN epochs THEN 404 ELSE 0

SealRejection(epoch_id) ==
    IF epoch_id \notin DOMAIN epochs THEN 404
    ELSE IF epochs[epoch_id].status # "active" THEN 400
    ELSE 0

\* The settlement loop of seal_epoch, from the first settlement on: the
\* accounts, the log and the counter after it.
RECURSIVE ProcessSettlements(_, _, _, _, _)
ProcessSettlements(accts, txs, counter, settlements, epoch_id) ==
    IF settlements = <<>>
    THEN [accounts |-> accts, transactions |-> txs, tx_counter |-> counter]
    ELSE
        LET worker_ens == Head(settlements).worker_ens
            earned == Head(settlements).total_earned_usd
        IN  IF worker_ens \in DOMAIN accts
            THEN
                LET settled == [accts EXCEPT
                                    ![worker_ens].pending_usd = @ - earned,
                                    ![worker_ens].balance_usd = @ + earned,
                                    ![worker_ens].total_in_usd = @ + earned]
                IN  ProcessSettlements(
                        settled,
                        RecordTransaction(txs, counter, worker_ens, "EARNING",
                                          earned,
                                          settled[worker_ens].balance_usd,
                                          "epoch", epoch_id, None),
                        counter + 1, Tail(settlements), epoch_id)
            ELSE ProcessSettlements(accts, txs, counter, Tail(settlements),
                                    epoch_id)

SealEpoch(epoch_id, request) ==
    IF SealRejection(epoch_id) # 0
    THEN UNCHANGED vars
    ELSE
        LET after == ProcessSettlements(accounts, transactions, tx_counter,
                                        request.settlements, epoch_id)
        IN  /\ epochs' = [epochs EXCEPT ![epoch_id] =
                             [status |-> "finalized",
                              jobs_count |-> request.jobs_count,
                              jobs_merkle_root |-> request.jobs_merkle_root,
                              total_revenue_usd |-> request.total_revenue_usd,
                              signature |-> request.signature]]
            /\ accounts' = after.accounts
            /\ transactions' = after.transactions
            /\ tx_counter' = after.tx_counter
            /\ ledger_ops' = ledger_ops + 1
            /\ UNCHANGED reserved_for
            /\ UNCHANGED <<deposits, withdrawals>>
            /\ UNCHANGED outsideLedger

SealRequests ==
    [jobs_merkle_root : {Digest("5ea1ed00")},
     jobs_count : {Epoch3Jobs},
     total_revenue_usd : {Epoch3Revenue},
     settlements : SettlementLists,
     signature : {"sig"}]

LedgerNext ==
    \/ /\ ledger_ops < MaxLedgerOps
       /\ \E ens \in LedgerEns, amount \in LedgerAmounts,
             job_id \in LedgerJobIds : ReserveFunds(ens, amount, job_id)
    \/ /\ ledger_ops < MaxLedgerOps
       /\ \E ens \in LedgerEns, amount \in LedgerAmounts,
             job_id \in LedgerJobIds : ChargeFunds(ens, amount, job_id)
    \/ /\ ledger_ops < MaxLedgerOps
       /\ \E ens \in LedgerEns, amount \in LedgerAmounts,
             job_id \in LedgerJobIds, is_pending \in BOOLEAN :
              CreditEarnings(ens, amount, job_id, is_pending)
    \/ /\ ledger_ops < MaxLedgerOps
       /\ \E ens \in LedgerEns, amount \in LedgerAmounts,
             eth_tx_hash \in EthTxHashes :
              RecordDeposit(ens, amount, eth_tx_hash)
    \/ /\ ledger_ops < MaxLedgerOps
       /\ \E ens \in LedgerEns, amount \in WithdrawAmounts :
              RequestWithdrawal(ens, amount)
    \/ /\ ledger_ops < MaxLedgerOps
       /\ \E epoch_id \in SealEpochIds, request \in SealRequests :
              SealEpoch(epoch_id, request)

LedgerSpec == Init /\ [][LedgerNext]_vars

(***************************************************************************)
(* Receipts: MerkleTree, verify_merkle_proof and generate_receipt of        *)
(* rails/crypto/signing.py.  An item is a job; its key is its id, and keys  *)
(* are numbered in the order their strings sort.  Indices are the code's:   *)
(* the first node of a level has index 0.                                   *)
(***************************************************************************)
ItemKeys == 1..MaxLeaves
ItemOf(key) == [id |-> key]
ReceiptEpochIds == {"epoch-001", "epoch-003", "epoch-009"}

\* sorted(items, key=lambda x: x.get(key_field, '')), as the list of keys.
RECURSIVE SortedKeys(_)
SortedKeys(keys) ==
    IF keys = {}
    THEN <<>>
    ELSE LET least == CHOOSE x \in keys : \A y \in keys : x <= y
         IN  <<least>> \o SortedKeys(keys \ {least})

\* MerkleTree.__init__: self.leaves
LeavesOf(keys) ==
    [i \in 1..Cardinality(keys) |-> LeafHashOf(ItemOf(SortedKeys(keys)[i]))]

\* MerkleTree.__init__: self.item_to_index[key]
ItemToIndex(keys, key) ==
    CHOOSE i \in 0..(Cardinality(keys) - 1) : SortedKeys(keys)[i + 1] = key

\* One pass of the loop of _build_tree: the level above current_level.
NextLevel(current_level) ==
    [p \in 1..((Len(current_level) + 1) \div 2) |->
        LET i == 2 * (p - 1)
            left == current_level[i + 1]
            right == IF i + 1 < Len(current_level)
                     THEN current_level[i + 2]
                     ELSE left
        IN  HashPair(left, right)]

\* MerkleTree._build_tree: self.levels, from the leaves up.
RECURSIVE BuildTree(_)
BuildTree(level) ==
    IF Len(level) <= 1
    THEN <<level>>
    ELSE <<level>> \o BuildTree(NextLevel(level))

\* MerkleTree.root
RootOf(levels) ==
    IF levels[Len(levels)] = <<>>
    THEN Digest("e3b0c442")
    ELSE levels[Len(levels)][1]

\* get_proof with the last node of an odd level paired with the node before
\* it instead of with itself.
ProofStepPairsLeft(level, index) ==
    LET sibling_index == IF index % 2 = 0 THEN index + 1 ELSE index - 1
        position == IF index % 2 = 0 THEN "right" ELSE "left"
        sibling_hash == IF sibling_index >= Len(level)
                        THEN level[index]
                        ELSE level[sibling_index + 1]
    IN  [hash |-> sibling_hash, position |-> position]

\* One pass of the loop of get_proof: the proof element for the node at
\* index in level.
ProofStep(level, index) ==
    LET sibling_index == IF index % 2 = 0 THEN index + 1 ELSE index - 1
        position == IF index % 2 = 0 THEN "right" ELSE "left"
        sibling_hash == IF sibling_index >= Len(level)
                        THEN level[index + 1]
                        ELSE level[sibling_index + 1]
    IN  [hash |-> sibling_hash, position |-> position]

\* get_proof walking every level, the one that holds the root included.
RECURSIVE ProofFromAllLevels(_, _, _)
ProofFromAllLevels(levels, k, index) ==
    IF k > Len(levels)
    THEN <<>>
    ELSE <<ProofStep(levels[k], index)>>
            \o ProofFromAllLevels(levels, k + 1, index \div 2)

\* MerkleTree.get_proof, for the levels from the k-th on (levels[:-1]).
RECURSIVE ProofFrom(_, _, _)
ProofFrom(levels, k, index) ==
    IF k >= Len(levels)
    THEN <<>>
    ELSE <<ProofStep(levels[k], index)>>
            \o ProofFrom(levels, k + 1, index \div 2)

GetProof(keys, key) ==
    ProofFrom(BuildTree(LeavesOf(keys)), 1, ItemToIndex(keys, key))

\* MerkleTree.get_leaf_hash
GetLeafHash(keys, key) == LeavesOf(keys)[ItemToIndex(keys, key) + 1]

\* verify_merkle_proof with the sibling always hashed on the right.
RECURSIVE FoldProofIgnoresPosition(_, _)
FoldProofIgnoresPosition(current, proof) ==
    IF proof = <<>>
    THEN current
    ELSE FoldProofIgnoresPosition(HashPair(current, Head(proof).hash),
                                  Tail(proof))

\* The loop of verify_merkle_proof: current after the steps of proof.
RECURSIVE FoldProof(_, _)
FoldProof(current, proof) ==
    IF proof = <<>>
    THEN current
    ELSE FoldProof(IF Head(proof).position = "left"
                   THEN HashPair(Head(proof).hash, current)
                   ELSE HashPair(current, Head(proof).hash),
                   Tail(proof))

\* verify_merkle_proof
VerifyMerkleProof(leaf_hash, proof, expected_root) ==
    FoldProof(leaf_hash, proof) = expected_root

\* generate_receipt, the fields a verifier reads.
GenerateReceipt(keys, key, epoch_id) ==
    [job_id |-> key,
     epoch_id |-> epoch_id,
     leaf_hash |-> GetLeafHash(keys, key),
     jobs_merkle_root |-> RootOf(BuildTree(LeavesOf(keys))),
     merkle_proof |-> GetProof(keys, key)]

\* The digests somebody may put in the place of one of a receipt: every node
\* of the tree and a digest that is no node of it.
OtherDigests(keys) ==
    LET levels == BuildTree(LeavesOf(keys))
    IN  UNION {{levels[k][i] : i \in DOMAIN levels[k]} : k \in DOMAIN levels}
            \cup {Digest("bad0bad0")}

Unaltered == [what |-> "none", step |-> 0]

\* A tree is built from a set of jobs with distinct ids.
NewTree(keys) ==
    /\ receipt_pc = "empty"
    /\ tree_items' = keys
    /\ receipt_pc' = "built"
    /\ UNCHANGED <<receipt, altered, verdict>>
    /\ UNCHANGED <<answer, outsideReceipts>>

\* generate_receipt returns None for a job that is not in the tree.
IssueReceipt(key, epoch_id) ==
    /\ receipt_pc = "built"
    /\ key \in tree_items
    /\ receipt' = GenerateReceipt(tree_items, key, epoch_id)
    /\ receipt_pc' = "issued"
    /\ UNCHANGED <<tree_items, altered, verdict>>
    /\ UNCHANGED <<answer, outsideReceipts>>

\* One field of the receipt is altered on its way to the verifier.
AlterLeaf(digest) ==
    /\ receipt_pc = "issued"
    /\ altered = Unaltered
    /\ digest # receipt.leaf_hash
    /\ receipt' = [receipt EXCEPT !.leaf_hash = digest]
    /\ altered' = [what |-> "leaf", step |-> 0]
    /\ UNCHANGED <<tree_items, receipt_pc, verdict>>
    /\ UNCHANGED <<answer, outsideReceipts>>

AlterSibling(step, digest) ==
    /\ receipt_pc = "issued"
    /\ altered = Unaltered
    /\ step \in DOMAIN receipt.merkle_proof
    /\ digest # receipt.merkle_proof[step].hash
    /\ receipt' = [receipt EXCEPT !.merkle_proof[step].hash = digest]
    /\ altered' = [what |-> "sibling", step |-> step]
    /\ UNCHANGED <<tree_items, receipt_pc, verdict>>
    /\ UNCHANGED <<answer, outsideReceipts>>

AlterPosition(step) ==
    /\ receipt_pc = "issued"
    /\ altered = Unaltered
    /\ step \in DOMAIN receipt.merkle_proof
    /\ receipt' = [receipt EXCEPT !.merkle_proof[step].position =
                       IF @ = "left" THEN "right" ELSE "left"]
    /\ altered' = [what |-> "position", step |-> step]
    /\ UNCHANGED <<tree_items, receipt_pc, verdict>>
    /\ UNCHANGED <<answer, outsideReceipts>>

AlterRoot(digest) ==
    /\ receipt_pc = "issued"
    /\ altered = Unaltered
    /\ digest # receipt.jobs_merkle_root
    /\ receipt' = [receipt EXCEPT !.jobs_merkle_root = digest]
    /\ altered' = [what |-> "root", step |-> 0]
    /\ UNCHANGED <<tree_items, receipt_pc, verdict>>
    /\ UNCHANGED <<answer, outsideReceipts>>

\* The verifier runs verify_merkle_proof on the receipt it holds.
VerifyReceiptProof ==
    /\ receipt_pc = "issued"
    /\ verdict' = IF VerifyMerkleProof(receipt.leaf_hash,
                                       receipt.merkle_proof,
                                       receipt.jobs_merkle_root)
                  THEN "valid"
                  ELSE "invalid"
    /\ receipt_pc' = "verified"
    /\ UNCHANGED <<tree_items, receipt, altered>>
    /\ UNCHANGED <<answer, outsideReceipts>>

\* EpochStore.__init__ of the epoch service (swarmepoch/api/main.py); no
\* handler of the service changes it.
EpochStoreEpochs ==
       ("epoch-000" :> [status |-> "finalized",
                        jobs_merkle_root |-> Digest("00000000")])
    @@ ("epoch-001" :> [status |-> "finalized",
                        jobs_merkle_root |-> Digest("7ec20e03")])
    @@ ("epoch-002" :> [status |-> "finalized",
                        jobs_merkle_root |-> Digest("a3f891c2")])
    @@ ("epoch-003" :> [status |-> "active", jobs_merkle_root |-> NoDigest])

\* The "valid" of the response of verify_receipt, of the ledger
\* (POST /v1/verify/receipt) and of the epoch service (POST /v1/verify) alike,
\* over the epochs of the service's store.
VerifyReceipt(store_epochs, request) ==
    IF request.epoch_id \notin DOMAIN store_epochs THEN FALSE
    ELSE IF store_epochs[request.epoch_id].jobs_merkle_root = NoDigest
         THEN FALSE
         ELSE TRUE

\* The epochs a service answers from.
StoreEpochs(service) ==
    IF service = "ledger" THEN epochs ELSE EpochStoreEpochs

\* A verifier posts the receipt it holds to a verification endpoint.
VerifyReceiptEndpoint(service) ==
    /\ receipt_pc = "issued"
    /\ answer' = [service |-> service,
                  valid |-> VerifyReceipt(StoreEpochs(service), receipt)]
    /\ receipt_pc' = "answered"
    /\ UNCHANGED <<tree_items, receipt, altered, verdict>>
    /\ UNCHANGED outsideReceipts

\* The seal request that carries the root of the tree.
TreeSealRequest ==
    [jobs_merkle_root |-> RootOf(BuildTree(LeavesOf(tree_items))),
     jobs_count |-> Cardinality(tree_items),
     total_revenue_usd |-> JOB_FEE_USD * Cardinality(tree_items),
     settlements |-> <<>>,
     signature |-> "sig"]

ReceiptNext ==
    \/ \E keys \in SUBSET ItemKeys : NewTree(keys)
    \/ /\ receipt_pc = "built"
       /\ SealEpoch("epoch-003", TreeSealRequest)
    \/ \E service \in {"ledger", "epoch"} : VerifyReceiptEndpoint(service)
    \/ \E key \in ItemKeys, epoch_id \in ReceiptEpochIds :
           IssueReceipt(key, epoch_id)
    \/ \E digest \in OtherDigests(tree_items) : AlterLeaf(digest)
    \/ \E step \in 1..MaxLeaves, digest \in OtherDigests(tree_items) :
           AlterSibling(step, digest)
    \/ \E step \in 1..MaxLeaves : AlterPosition(step)
    \/ \E digest \in OtherDigests(tree_items) : AlterRoot(digest)
    \/ VerifyReceiptProof

ReceiptSpec == Init /\ [][ReceiptNext]_vars

(***************************************************************************)
(* MerkleTree.__init__ on a list in insertion order.  An item is its key   *)
(* (ItemOf); the keys of a list are distinct.                              *)
(***************************************************************************)
\* The lists with exactly the keys of the set, in every order.
RECURSIVE Orderings(_)
Orderings(keys) ==
    IF keys = {}
    THEN {<<>>}
    ELSE UNION {{<<k>> \o rest : rest \in Orderings(keys \ {k})} : k \in keys}

InsertionLists ==
    UNION {Orderings(keys) :
              keys \in {k \in SUBSET ItemKeys : Cardinality(k) <= MaxInserted}}

\* The list left in insertion order.
UnsortedItems(items) == items

\* sorted(items, key=...): a stable sort by key, here by insertion from the
\* left.
RECURSIVE InsertByKey(_, _)
InsertByKey(sorted, key) ==
    IF sorted = <<>> THEN <<key>>
    ELSE IF key < Head(sorted) THEN <<key>> \o sorted
    ELSE <<Head(sorted)>> \o InsertByKey(Tail(sorted), key)

RECURSIVE SortedItems(_)
SortedItems(items) ==
    IF items = <<>> THEN <<>>
    ELSE InsertByKey(SortedItems(SubSeq(items, 1, Len(items) - 1)),
                     items[Len(items)])

\* MerkleTree.__init__ and _build_tree: the object built from the list.
MerkleTreeOf(items) ==
    LET sorted == SortedItems(items)
        leaves == [i \in 1..Len(sorted) |-> LeafHashOf(ItemOf(sorted[i]))]
    IN  [items |-> sorted, leaves |-> leaves, levels |-> BuildTree(leaves)]

\* self.item_to_index[key] of the object.
IndexIn(tree, key) ==
    CHOOSE i \in 0..(Len(tree.items) - 1) : tree.items[i + 1] = key

\* get_proof and get_leaf_hash of the object.
ProofIn(tree, key) == ProofFrom(tree.levels, 1, IndexIn(tree, key))
LeafHashIn(tree, key) == tree.leaves[IndexIn(tree, key) + 1]

\* The object is built once and has no method that changes it.
BuildMerkleTree(items) ==
    /\ inserted = <<>>
    /\ inserted' = items
    /\ merkle_tree' = MerkleTreeOf(items)
    /\ UNCHANGED outsideOrder

OrderNext == \E items \in InsertionLists : BuildMerkleTree(items)

OrderSpec == Init /\ [][OrderNext]_vars

(***************************************************************************)
(* The ClientSwarm portal (backend/api/jobs.py, backend/api/settings.py).   *)
(* Amounts are in cents.  One action is the handler's code between two      *)
(* awaits; the client dict of a request is what get_current_client read.    *)
(***************************************************************************)
PortalRequests == 1..MaxRequests

\* get_current_client and the balance check of submit_job.
PortalAuthenticate(r) ==
    LET client == client_doc
        can_submit == \/ client.free_scans_remaining > 0
                      \/ client.balance >= price_per_scan
    IN  /\ portalReq[r].pc = "idle"
        /\ portalReq' = [portalReq EXCEPT ![r] =
               [pc |-> IF can_submit THEN "submit" ELSE "rejected",
                client |-> client]]
        /\ UNCHANGED <<client_doc, job_docs, funded>>
        /\ UNCHANGED outsidePortal

\* swarmpool_service.submit_job returned.
PortalPoolSubmit(r) ==
    /\ portalReq[r].pc = "submit"
    /\ portalReq' = [portalReq EXCEPT ![r].pc = "insert"]
    /\ UNCHANGED <<client_doc, job_docs, funded>>
    /\ UNCHANGED outsidePortal

\* swarmpool_service.submit_job raised: 500.
PortalPoolSubmitFails(r) ==
    /\ portalReq[r].pc = "submit"
    /\ portalReq' = [portalReq EXCEPT ![r].pc = "failed"]
    /\ UNCHANGED <<client_doc, job_docs, funded>>
    /\ UNCHANGED outsidePortal

\* jobs.insert_one(job_record)
PortalInsertJob(r) ==
    /\ portalReq[r].pc = "insert"
    /\ job_docs' = job_docs + 1
    /\ portalReq' = [portalReq EXCEPT ![r].pc = "deduct"]
    /\ UNCHANGED <<client_doc, funded>>
    /\ UNCHANGED outsidePortal

\* "Deduct balance": the $inc chosen by the client dict of the request.
Deduct(doc, client) ==
    IF client.free_scans_remaining > 0
    THEN [doc EXCEPT !.free_scans_remaining = @ - 1, !.total_jobs = @ + 1]
    ELSE [doc EXCEPT !.balance = @ - price_per_scan, !.total_jobs = @ + 1]

\* clients.update_one of submit_job, and the response.
PortalDeduct(r) ==
    /\ portalReq[r].pc = "deduct"
    /\ client_doc' = Deduct(client_doc, portalReq[r].client)
    /\ portalReq' = [portalReq EXCEPT ![r].pc = "returned"]
    /\ UNCHANGED <<job_docs, funded>>
    /\ UNCHANGED outsidePortal

\* POST /billing/add-funds
AddFunds(amount) ==
    /\ funded < MaxAddFunds * price_per_scan
    /\ amount > 0 /\ amount <= 100000
    /\ client_doc' = [client_doc EXCEPT !.balance = @ + amount]
    /\ funded' = funded + amount
    /\ UNCHANGED <<job_docs, portalReq>>
    /\ UNCHANGED outsidePortal

PortalNext ==
    \/ \E r \in PortalRequests : PortalAuthenticate(r)
    \/ \E r \in PortalRequests : PortalPoolSubmit(r)
    \/ \E r \in PortalRequests : PortalPoolSubmitFails(r)
    \/ \E r \in PortalRequests : PortalInsertJob(r)
    \/ \E r \in PortalRequests : PortalDeduct(r)
    \/ AddFunds(price_per_scan)

PortalSpec == Init /\ [][PortalNext]_vars

\* The submits the portal accepted: those that returned the job record.
AcceptedSubmits == {r \in PortalRequests : portalReq[r].pc = "returned"}

(***************************************************************************)
(* The treasury (swarmbank/api/main.py).  Revenue and the reported amounts  *)
(* are in cents; the amounts before rounding are in hundredths of a cent,   *)
(* which is the exponent Decimal gives the product of a two-decimal revenue *)
(* and a two-decimal percentage.                                            *)
(***************************************************************************)
Revenues ==
    (0..MaxRevenue) \cup {Epoch1Revenue, Epoch2Revenue, Epoch3Revenue}

\* round(x, places) of a non-negative Decimal: to the nearest multiple of
\* unit, a tie to the even neighbour.
RoundHalfEven(x, unit) ==
    LET q == x \div unit
        r == x % unit
    IN  IF 2 * r > unit \/ (2 * r = unit /\ q % 2 = 1) THEN q + 1 ELSE q

\* BankStore.get_treasury_report.  The quotient WORK_POOL_PCT /
\* (WORK_POOL_PCT + READINESS_POOL_PCT) has no finite expansion; Decimal
\* keeps 28 significant digits of it, and the product with remaining, again
\* rounded to 28 digits, is remaining * 70 / 93 exactly for amounts of the
\* size of an epoch revenue, remaining being a multiple of 93.
GetTreasuryReport(epoch_revenue) ==
    LET protocol_fee == epoch_revenue * PROTOCOL_FEE_PCT
        operator_fee == epoch_revenue * OPERATOR_FEE_PCT
        remaining == epoch_revenue * 100 - protocol_fee - operator_fee
        work_pool == (remaining * WORK_POOL_PCT)
                         \div (WORK_POOL_PCT + READINESS_POOL_PCT)
        readiness_pool == remaining - work_pool
    IN  [period |-> "epoch",
         total_revenue_usd |-> epoch_revenue,
         work_pool_usd |-> RoundHalfEven(work_pool, 100),
         readiness_pool_usd |-> RoundHalfEven(readiness_pool, 100),
         protocol_fee_usd |-> RoundHalfEven(protocol_fee, 100),
         operator_fee_usd |-> RoundHalfEven(operator_fee, 100),
         total_distributed_usd |-> epoch_revenue]

\* GET /v1/treasury/report
TreasuryReport(epoch_revenue) ==
    /\ treasury_report' = GetTreasuryReport(epoch_revenue)
    /\ UNCHANGED outsideBank

BankNext == \E epoch_revenue \in Revenues : TreasuryReport(epoch_revenue)

BankSpec == Init /\ [][BankNext]_vars

(***************************************************************************)
(* Claims about the Dispatch Controller.                                   *)
(***************************************************************************)

\* C1: claim is at-most-once: no job_id is returned to more than one worker.
C1_AtMostOnceClaim ==
    \A d1 \in delivered : \A d2 \in delivered :
        d1[1] = d2[1] => d1[2] = d2[2]

\* C2: every job that ever reached completed has been charged to its client
\* exactly once.
C2_ChargedExactlyOnce ==
    \A j \in DOMAIN charges : charges[j] = 1

\* C3: every client account satisfies balance >= reserved >= 0.
C3_BalanceReservedOrder ==
    \A c \in DOMAIN clients :
        /\ clients[c].balance_usd >= clients[c].reserved_usd
        /\ clients[c].reserved_usd >= 0

\* C5: submit is idempotent on (client, nonce): no two jobs come from submits
\* of the same client with the same nonce (all submits of a run of the intake
\* handlers fall inside one replay window: the clock stands still).
C5_SubmitIdempotentOnNonce ==
    \A j1 \in DOMAIN jobs : \A j2 \in DOMAIN jobs :
        (j1 # j2 /\ jobs[j1].client_ens = jobs[j2].client_ens)
            => nonce_log[j1] # nonce_log[j2]

\* C6: complete is idempotent on job_id: a complete request for a job that is
\* already completed is answered with success, not rejected.
C6_CompleteIdempotent ==
    \A j \in DOMAIN jobs :
        jobs[j].status = "completed" => CompleteRejection(j) = 0

\* C7: a job handed to a worker that never completes it does not stay in
\* processing: once its claim is older than CLAIM_TIMEOUT and one sweep, the
\* job is no longer processing.
C7_AbandonedJobLeavesProcessing ==
    \A j \in DOMAIN jobs :
        (/\ jobs[j].status = "processing"
         /\ j \in DOMAIN processing
         /\ <<j, jobs[j].worker_ens>> \in delivered)
            => now - processing[j].claimed_at
                   <= CLAIM_TIMEOUT + HEARTBEAT_SWEEP_INTERVAL

\* C8: complete is accepted only from the worker that claimed the job: the
\* handler goes on to change state only when request.worker_ens is the worker
\* the job record names.
C8_CompleteOnlyByClaimant ==
    [][\A w \in Workers :
          (completeReq[w].pc = "idle" /\ completeReq'[w].pc = "status")
              => jobs[completeReq'[w].job_id].worker_ens = w]_vars

\* C9: submit is accepted only if the request signature recovers to the
\* address bound to the client.
C9_SubmitNeedsValidSignature ==
    \A c \in Clients :
        submitReq[c].pc = "xadd"
            => VerifyJobRequest(submitReq[c].request, BoundAddress(c))

\* C10: claim takes a job from the queue only for a worker that is registered
\* and whose status is online at the time of the call.
C10_ClaimOnlyByOnlineWorker ==
    [][\A w \in Workers :
          (claimReq[w].pc = "idle" /\ claimReq'[w].pc = "hset")
              => (w \in DOMAIN workers /\ workers[w].status = "online")]_vars

\* C14: queue ordering: the entry a claim takes is, of the pending entries,
\* one of the highest priority and among those the one enqueued earliest.
C14_ClaimTakesHighestPriorityFirst ==
    [][\A w \in Workers :
          (claimReq[w].pc = "idle" /\ claimReq'[w].pc = "hset")
              => \A i \in DOMAIN pending :
                     /\ pending[i].priority <= claimReq'[w].entry.priority
                     /\ (pending[i].priority = claimReq'[w].entry.priority
                            => pending[i].message_id
                                   >= claimReq'[w].entry.message_id)]_vars

\* C15: terminal job states are immutable: the record of a completed job
\* (status, worker, fee, result_ref) is never changed by a later step.
C15_CompletedJobImmutable ==
    [][\A j \in DOMAIN jobs :
          jobs[j].status = "completed" => jobs'[j] = jobs[j]]_vars

\* A step in which submit_job accepts a request of client c.
SubmitAccepted(c) == submitReq[c].pc = "idle" /\ submitReq'[c].pc = "xadd"

\* C16: submit succeeds only when the client's available funds are at least
\* the fee; on success reserved rises by exactly the fee, balance is
\* unchanged and one job in status queued is created and then enqueued; with
\* insufficient funds the request is rejected with 402, and nothing is
\* reserved or created except by an accepted submit.
C16_SubmitReservesWhenFunded ==
    /\ [](\A c \in DOMAIN clients : \A request \in SubmitRequests(c) :
             clients[c].balance_usd - clients[c].reserved_usd < JOB_FEE_USD
                 => SubmitRejection(request) = 402)
    /\ [][/\ \A c \in Clients :
                SubmitAccepted(c) =>
                    /\ c \in DOMAIN clients
                    /\ clients[c].balance_usd - clients[c].reserved_usd
                           >= JOB_FEE_USD
                    /\ clients'[c].reserved_usd
                           = clients[c].reserved_usd + JOB_FEE_USD
                    /\ clients'[c].balance_usd = clients[c].balance_usd
                    /\ DOMAIN jobs' = DOMAIN jobs \cup {submitReq'[c].job_id}
                    /\ submitReq'[c].job_id \notin DOMAIN jobs
                    /\ jobs'[submitReq'[c].job_id].status = "queued"
                    /\ jobs'[submitReq'[c].job_id].client_ens = c
          /\ \A c \in Clients :
                (submitReq[c].pc = "xadd" /\ submitReq'[c].pc = "idle") =>
                    /\ Len(pending') = Len(pending) + 1
                    /\ pending'[Len(pending')].job_id = submitReq[c].job_id
                    /\ pending'[Len(pending')].priority = 0
          /\ (\A c \in Clients : ~SubmitAccepted(c)) =>
                /\ DOMAIN jobs' = DOMAIN jobs
                /\ \A c \in DOMAIN clients :
                       clients'[c].reserved_usd = clients[c].reserved_usd
         ]_vars

\* C16 happens: a client whose funds were exactly one fee has had a submit
\* accepted and enqueued, and has nothing available for another.
C16_LastFeeReserved ==
    \E c \in DOMAIN clients :
        /\ clients[c].balance_usd = JOB_FEE_USD
        /\ clients[c].reserved_usd = JOB_FEE_USD
        /\ \E i \in DOMAIN pending : pending[i].client_ens = c
        /\ submitReq[c].pc = "idle"

\* C17: no partial commits: when the queue backend fails during submit, the
\* request ends with no job record and no reservation left behind; when it
\* fails during complete, the job is left in processing and uncharged.
C17_NoPartialCommit ==
    [][/\ \A c \in Clients :
             SubmitEnqueueFails(c) =>
                 /\ submitReq[c].job_id \notin DOMAIN jobs'
                 /\ clients'[c].reserved_usd
                        = clients[c].reserved_usd - JOB_FEE_USD
       /\ \A w \in Workers :
             CompleteStatusFails(w) =>
                 /\ jobs'[completeReq[w].job_id].status = "processing"
                 /\ charges' = Hdel(charges, completeReq[w].job_id)
      ]_vars

\* C28: a submit whose timestamp differs from the controller's clock by
\* exactly REPLAY_WINDOW is rejected; only a smaller difference is accepted.
C28_RejectedAtReplayWindow ==
    [][\A c \in Clients :
          SubmitAccepted(c) =>
              Abs(now - submitReq'[c].request.timestamp) < REPLAY_WINDOW
      ]_vars

\* C29: a worker whose last heartbeat is older than the heartbeat timeout is
\* eventually demoted to offline by the controller (unless it is heard from
\* again).
C29_StaleWorkerDemoted ==
    \A w \in Workers :
        StaleWorker(w) ~> (~StaleWorker(w) \/ workers[w].status = "offline")

\* C31: the move from pending to processing is atomic with respect to other
\* claimants: no job is both in the pending stream and in the processing
\* hash, and a claim never reads from the stream a job that is in the
\* processing hash.
C31_ClaimMoveAtomic ==
    /\ [](\A i \in DOMAIN pending : pending[i].job_id \notin DOMAIN processing)
    /\ [][\A w \in Workers :
             (claimReq[w].pc = "idle" /\ claimReq'[w].pc = "hset")
                 => claimReq'[w].entry.job_id \notin DOMAIN processing
         ]_vars

\* C34: processing-set consistency: each entry of the processing hash refers
\* to a job whose record has status processing and whose recorded worker is
\* the entry's worker, and a completed job has no entry; stated for the
\* states in which no handler is suspended at an await.
C34_ProcessingSetConsistent ==
    InFlight = 0 =>
        /\ \A j \in DOMAIN processing :
              /\ j \in DOMAIN jobs
              /\ jobs[j].status = "processing"
              /\ jobs[j].worker_ens = processing[j].worker_ens
        /\ \A j \in DOMAIN jobs :
              jobs[j].status = "completed" => j \notin DOMAIN processing

\* The client's jobs that hold a reservation.
OpenJobs(c) ==
    {j \in DOMAIN jobs :
        jobs[j].client_ens = c /\ jobs[j].status \in {"queued", "processing"}}

\* C35: for every client, reserved equals the job fee times the number of the
\* client's jobs whose status is queued or processing; stated for the states
\* in which no handler is suspended at an await.
C35_ReservedMatchesOpenJobs ==
    InFlight = 0 =>
        \A c \in DOMAIN clients :
            clients[c].reserved_usd = JOB_FEE_USD * Cardinality(OpenJobs(c))

\* C36: while a job is in processing with worker w, the worker registry shows
\* w busy with that job, and a worker that holds no processing job is not
\* shown busy; stated for the states in which no handler is suspended at an
\* await.
C36_RegistryMatchesJobs ==
    InFlight = 0 =>
        /\ \A j \in DOMAIN jobs :
              jobs[j].status = "processing" =>
                  /\ jobs[j].worker_ens \in DOMAIN workers
                  /\ workers[jobs[j].worker_ens].status = "busy"
                  /\ workers[jobs[j].worker_ens].current_job_id = j
        /\ \A w \in DOMAIN workers :
              workers[w].status = "busy" =>
                  /\ workers[w].current_job_id \in DOMAIN jobs
                  /\ jobs[workers[w].current_job_id].status = "processing"
                  /\ jobs[workers[w].current_job_id].worker_ens = w

\* C37: cleanup_stale_workers changes only the status of each stale,
\* non-offline worker, to offline: it leaves that worker's last_heartbeat and
\* current_job_id unchanged and does not modify any other worker.
C37_CleanupChangesOnlyStatus ==
    [][CleanupStaleWorkers =>
          /\ DOMAIN workers' = DOMAIN workers
          /\ \A w \in DOMAIN workers :
                workers'[w] =
                    IF StaleWorker(w) /\ workers[w].status # "offline"
                    THEN [workers[w] EXCEPT !.status = "offline"]
                    ELSE workers[w]
      ]_vars

\* A step in which complete_job accepts the completion reported by worker w.
CompleteAccepted(w) ==
    completeReq[w].pc = "idle" /\ completeReq'[w].pc = "status"

\* C26: when a job is completed, the worker that completed it is credited in
\* the ledger: its pending earnings rise at completion.
C26_CompletionCreditsWorker ==
    [][\A w \in Workers :
          CompleteAccepted(w) =>
              /\ w \in DOMAIN accounts'
              /\ accounts'[w].pending_usd
                     > (IF w \in DOMAIN accounts
                        THEN accounts[w].pending_usd ELSE 0)
      ]_vars

\* C30: when inference fails for a claimed job, the worker agent reports the
\* failure to the controller before it returns to idle: when the agent is
\* idle again, the failed job has left processing and the controller does not
\* keep the worker marked busy on it.
C30_FailureReported ==
    [][\A w \in Workers :
          jobs_failed'[w] > jobs_failed[w] =>
              /\ worker_job_id[w] \notin DOMAIN processing'
              /\ ~ /\ w \in DOMAIN workers'
                   /\ workers'[w].status = "busy"
                   /\ workers'[w].current_job_id = worker_job_id[w]
      ]_vars

\* C40: every accepted submit is assigned a job id that no earlier submit was
\* assigned, whatever other submits are in flight, and it leaves every job
\* record written before it as it was.
C40_FreshJobId ==
    [][\A c \in Clients :
          (submitReq[c].pc = "idle" /\ submitReq'[c].pc = "xadd") =>
              /\ submitReq'[c].job_id \notin DOMAIN jobs
              /\ submitReq'[c].job_id \notin DOMAIN nonce_log
              /\ \A c2 \in Clients :
                     submitReq[c2].pc = "xadd" =>
                         submitReq[c2].job_id # submitReq'[c].job_id
              /\ \A j \in DOMAIN jobs :
                     j \in DOMAIN jobs' /\ jobs'[j] = jobs[j]
      ]_vars

\* A submit was accepted while another one, accepted before it, was still
\* waiting for the queue, and a third job had been submitted before both.
C40_SubmitsOverlap ==
    \E c1, c2 \in Clients :
        /\ c1 # c2
        /\ submitReq[c1].pc = "xadd" /\ submitReq[c2].pc = "xadd"
        /\ submitReq[c1].job_id # submitReq[c2].job_id
        /\ Cardinality(DOMAIN jobs) >= 3

(***************************************************************************)
(* Claims about the Settlement Ledger.                                     *)
(***************************************************************************)

\* C4: after every operation of the ledger (deposit, reserve, charge,
\* credit, withdraw_request, seal_epoch), every account has balance >= 0 and
\* 0 <= reserved <= balance; several withdrawal requests by one worker
\* included.
C4_LedgerBalanceReserved ==
    \A ens \in DOMAIN accounts :
        /\ accounts[ens].balance_usd >= 0
        /\ accounts[ens].reserved_usd >= 0
        /\ accounts[ens].reserved_usd <= accounts[ens].balance_usd

\* C18: exactly one epoch has status active in every reachable state of the
\* ledger, the state right after a successful seal_epoch included.
C18_ExactlyOneActiveEpoch ==
    Cardinality({e \in DOMAIN epochs : epochs[e].status = "active"}) = 1

\* The earning transactions of the log that reference the epoch.
EpochEarnings(epoch_id) ==
    {i \in DOMAIN transactions :
        /\ transactions[i].tx_type = "EARNING"
        /\ transactions[i].reference_type = "epoch"
        /\ transactions[i].reference_id = epoch_id}

\* C19: seal_epoch is idempotent on epoch_id: a seal of an epoch that is
\* unknown or not active is rejected, and it leaves the accounts, the
\* transaction log and the epochs as they were; once an epoch is finalized,
\* no later step changes its recorded fields or adds an earning transaction
\* that references it.
C19_ResealRejected ==
    /\ [](\A e \in SealEpochIds :
            (e \notin DOMAIN epochs \/ epochs[e].status # "active")
                => SealRejection(e) # 0)
    /\ [][/\ \A e \in SealEpochIds, r \in SealRequests :
                (/\ e \in DOMAIN epochs => epochs[e].status # "active"
                 /\ SealEpoch(e, r))
                    => UNCHANGED <<accounts, transactions, epochs>>
          /\ \A e \in DOMAIN epochs :
                epochs[e].status = "finalized" =>
                    /\ epochs'[e] = epochs[e]
                    /\ EpochEarnings(e)' = EpochEarnings(e)
         ]_vars

\* C19 witness: epoch-003 was sealed with a settlement, and a further seal
\* request can still arrive.
C19_SealedWithEarnings ==
    /\ epochs["epoch-003"].status = "finalized"
    /\ EpochEarnings("epoch-003") # {}
    /\ ledger_ops < MaxLedgerOps

\* The sum of the settlements of the list that name the worker.
RECURSIVE SettledTo(_, _)
SettledTo(settlements, ens) ==
    IF settlements = <<>> THEN 0
    ELSE (IF Head(settlements).worker_ens = ens
          THEN Head(settlements).total_earned_usd ELSE 0)
         + SettledTo(Tail(settlements), ens)

\* C20: a successful seal_epoch moves, for each settlement (worker, amount),
\* amount from the worker's pending to its balance, appends exactly one
\* earning transaction referencing the epoch per settlement, changes no other
\* account, and flips the epoch from active to finalized.
C20_SealMovesPendingToBalance ==
    [][\A e \in SealEpochIds, r \in SealRequests :
          (SealRejection(e) = 0 /\ SealEpoch(e, r)) =>
              LET S == r.settlements
                  n == Len(transactions)
              IN  /\ epochs[e].status = "active"
                  /\ epochs'[e].status = "finalized"
                  /\ Len(transactions') = n + Len(S)
                  /\ \A i \in 1..Len(S) :
                        n + i \in DOMAIN transactions' =>
                            /\ transactions'[n + i].tx_type = "EARNING"
                            /\ transactions'[n + i].account_ens
                                   = S[i].worker_ens
                            /\ transactions'[n + i].amount_usd
                                   = S[i].total_earned_usd
                            /\ transactions'[n + i].reference_type = "epoch"
                            /\ transactions'[n + i].reference_id = e
                  /\ \A a \in DOMAIN accounts :
                        /\ accounts'[a].balance_usd
                               = accounts[a].balance_usd + SettledTo(S, a)
                        /\ accounts'[a].pending_usd
                               = accounts[a].pending_usd - SettledTo(S, a)
                        /\ SettledTo(S, a) = 0 => accounts'[a] = accounts[a]
                  /\ \A i \in 1..Len(S) : S[i].worker_ens \in DOMAIN accounts'
      ]_vars

\* C21: after every operation of the ledger every account's pending is >= 0:
\* no sequence of credit and seal_epoch calls drives it negative.
C21_PendingNonNegative ==
    \A ens \in DOMAIN accounts : accounts[ens].pending_usd >= 0

\* C22: a charge for a job_id that no accepted reserve of the same account
\* named is rejected: it leaves the accounts and the transaction log
\* unchanged, also when other jobs of the account hold reservations.
C22_ChargeNeedsMatchingReserve ==
    [][\A ens \in LedgerEns, amount \in LedgerAmounts, job_id \in LedgerJobIds :
          (<<ens, job_id>> \notin reserved_for
              /\ ChargeFunds(ens, amount, job_id))
                  => UNCHANGED <<accounts, transactions>>
      ]_vars

\* C23: charge is idempotent on job_id: the log never holds two JOB_CHARGE
\* transactions of one account for one job.
C23_OneChargePerJob ==
    \A i, j \in DOMAIN transactions :
        (/\ transactions[i].tx_type = "JOB_CHARGE"
         /\ transactions[j].tx_type = "JOB_CHARGE"
         /\ transactions[i].account_ens = transactions[j].account_ens
         /\ transactions[i].reference_id = transactions[j].reference_id)
            => i = j

\* C24: deposit is idempotent on the external reference: no two deposit
\* records, and no two DEPOSIT transactions, carry the same eth_tx_hash.
C24_OneDepositPerReference ==
    /\ \A i, j \in DOMAIN deposits :
          deposits[i].eth_tx_hash = deposits[j].eth_tx_hash => i = j
    /\ \A i, j \in DOMAIN transactions :
          (/\ transactions[i].tx_type = "DEPOSIT"
           /\ transactions[j].tx_type = "DEPOSIT"
           /\ transactions[i].eth_tx_hash = transactions[j].eth_tx_hash)
              => i = j

\* The sum of the signed amounts of the account's transactions in the log.
RECURSIVE LogSum(_, _)
LogSum(txs, ens) ==
    IF txs = <<>> THEN 0
    ELSE (IF Head(txs).account_ens = ens THEN Head(txs).amount_usd ELSE 0)
         + LogSum(Tail(txs), ens)

\* C25: for every account, the sum of the signed amounts of its transactions
\* in the log equals its current balance.
C25_LogSumEqualsBalance ==
    \A ens \in DOMAIN accounts :
        LogSum(transactions, ens) = accounts[ens].balance_usd

\* ceil(log2 n) for n >= 1: the least d with 2^d >= n.
RECURSIVE CeilLog2(_)
CeilLog2(n) == IF n <= 1 THEN 0 ELSE 1 + CeilLog2((n + 1) \div 2)

\* C33: for a tree of n >= 1 jobs every job's proof has length ceil(log2 n),
\* the tree depth; for n = 1 the proof is the empty list and the root equals
\* the leaf hash.
C33_ProofLengthIsDepth ==
    (receipt_pc \notin {"empty", "built"}) =>
        /\ Len(receipt.merkle_proof) = CeilLog2(Cardinality(tree_items))
        /\ (Cardinality(tree_items) = 1 /\ altered = Unaltered) =>
               /\ receipt.merkle_proof = <<>>
               /\ receipt.jobs_merkle_root = receipt.leaf_hash

\* C33 witness: a receipt with a proof of length 2 was issued from a tree of
\* three jobs.
C33_ThreeJobsProofOfTwo ==
    /\ receipt_pc = "issued"
    /\ Cardinality(tree_items) = 3
    /\ Len(receipt.merkle_proof) = 2

\* The keys of a list.
KeysOf(items) == {items[i] : i \in DOMAIN items}

\* C32: the Merkle root and every job's leaf hash and proof depend only on
\* the set of jobs, not on their insertion order: the tree built from any
\* other ordering of the same jobs has the same root, leaf hashes and proofs.
C32_OrderIndependent ==
    \A other \in Orderings(KeysOf(inserted)) :
        LET tree == MerkleTreeOf(other)
        IN  /\ RootOf(tree.levels) = RootOf(merkle_tree.levels)
            /\ \A key \in KeysOf(inserted) :
                  /\ LeafHashIn(tree, key) = LeafHashIn(merkle_tree, key)
                  /\ ProofIn(tree, key) = ProofIn(merkle_tree, key)

\* C32 witness: a tree was built from three or more jobs given out of order.
C32_BuiltOutOfOrder ==
    /\ Len(inserted) >= 3
    /\ inserted # merkle_tree.items
    /\ Len(merkle_tree.levels) >= 3

(***************************************************************************)
(* Claims about the treasury.                                              *)
(***************************************************************************)

\* C27: for any epoch revenue R the treasury report gives protocol fee = 2%
\* of R, operator fee = 5% of R, work pool = 70% of the remaining 93% of R
\* and readiness pool = 30% of the remaining 93% of R, each computed exactly
\* and then rounded to cents.
C27_FeeSplit ==
    treasury_report.period = "epoch" =>
        LET R == treasury_report.total_revenue_usd
        IN  /\ treasury_report.protocol_fee_usd = RoundHalfEven(R * 2, 100)
            /\ treasury_report.operator_fee_usd = RoundHalfEven(R * 5, 100)
            /\ treasury_report.work_pool_usd
                   = RoundHalfEven(R * 93 * 70, 10000)
            /\ treasury_report.readiness_pool_usd
                   = RoundHalfEven(R * 93 * 30, 10000)

\* C39: for every epoch revenue given in whole cents, the work pool, the
\* readiness pool, the protocol fee and the operator fee of the treasury
\* report, each rounded to cents, add up to the reported total_distributed,
\* and total_distributed is the revenue.
C39_PartsSumToRevenue ==
    treasury_report.period = "epoch" =>
        /\ treasury_report.work_pool_usd + treasury_report.readiness_pool_usd
             + treasury_report.protocol_fee_usd
             + treasury_report.operator_fee_usd
               = treasury_report.total_distributed_usd
        /\ treasury_report.total_distributed_usd
               = treasury_report.total_revenue_usd

(***************************************************************************)
(* Claims about the ClientSwarm portal.                                    *)
(***************************************************************************)

\* C38: a client's balance and free_scans_remaining never become negative,
\* and the accepted submits never number more than the free scans and the
\* funds of the client pay for, however the client's submit requests
\* interleave.
C38_NeverOverdrawn ==
    /\ client_doc.balance >= 0
    /\ client_doc.free_scans_remaining >= 0
    /\ Cardinality(AcceptedSubmits) * price_per_scan
           <= MaxFreeScans * price_per_scan + funded

(***************************************************************************)
(* Claims about receipts.                                                  *)
(***************************************************************************)

\* C11: Merkle inclusion: for every non-empty set of jobs with distinct ids
\* and every job of it, verify_merkle_proof(leaf_hash, get_proof, root) is
\* true, levels with an odd number of nodes included.
C11_MerkleInclusion ==
    (receipt_pc = "verified" /\ altered = Unaltered) => verdict = "valid"

\* C11 happens: the receipt of the last of five jobs, whose node is paired
\* with itself on the first two levels, was verified.
C11_OddLevelsVerified ==
    /\ receipt_pc = "verified"
    /\ altered = Unaltered
    /\ Cardinality(tree_items) = 5
    /\ receipt.job_id = 5
    /\ receipt.merkle_proof[1].hash = receipt.leaf_hash
    /\ Len(receipt.merkle_proof) = 3

\* C12: tamper detection: after exactly one of the leaf hash, one sibling
\* hash of the proof, the root, or one position of the proof is altered in a
\* valid receipt, verify_merkle_proof answers false.
C12_EveryAlterationDetected ==
    (receipt_pc = "verified" /\ altered # Unaltered) => verdict = "invalid"

\* The running hash of verify_merkle_proof when it reaches a step.
RunningHashAt(step) ==
    FoldProof(receipt.leaf_hash, SubSeq(receipt.merkle_proof, 1, step - 1))

\* C12, amended: an altered leaf hash, sibling hash or root is always
\* detected; an altered position is detected exactly when the sibling of that
\* step differs from the running hash, that is at every step but the ones
\* where the node is paired with its own duplicate.
C12_AlterationDetectedUnlessSelfPaired ==
    (receipt_pc = "verified" /\ altered # Unaltered)
        => (verdict = "valid"
               <=> (/\ altered.what = "position"
                    /\ receipt.merkle_proof[altered.step].hash
                           = RunningHashAt(altered.step)))

\* C12 happens: a sibling hash on the second of three levels was altered and
\* the verifier answered.
C12_AlteredSiblingVerified ==
    /\ receipt_pc = "verified"
    /\ altered = [what |-> "sibling", step |-> 2]
    /\ Len(receipt.merkle_proof) = 3
    /\ verdict = "invalid"

\* What a verification endpoint is to answer: the epoch of the receipt is
\* sealed in the service's store and folding the leaf hash through the proof
\* yields the root sealed there.
ProvenInStore(store_epochs, request) ==
    /\ request.epoch_id \in DOMAIN store_epochs
    /\ store_epochs[request.epoch_id].jobs_merkle_root # NoDigest
    /\ VerifyMerkleProof(request.leaf_hash, request.merkle_proof,
                         store_epochs[request.epoch_id].jobs_merkle_root)

\* C13: a receipt verification endpoint answers valid iff folding the
\* receipt's leaf hash through its proof yields the sealed epoch's Merkle
\* root; a wrong leaf hash or a wrong proof for a sealed epoch is reported
\* invalid.
C13_EndpointAcceptsIffProven ==
    receipt_pc = "answered"
        => (answer.valid <=> ProvenInStore(StoreEpochs(answer.service),
                                           receipt))

=============================================================================
